---- MODULE Spec2Model ----
(***************************************************************************)
(* Recurrence and amortization engine of the fintracker forecaster.        *)
(*                                                                         *)
(* Units.  A Date value is a whole number of hours of local wall-clock     *)
(* time since 1970-01-01T00:00 local (the engine only ever produces whole  *)
(* hours: midnights, and MOCK_CURRENT_DATE which is 12:00Z).  A stored     *)
(* startDate string 'YYYY-MM-DD' is the day number since 1970-01-01.       *)
(* Money is a whole number of thousandths of a dollar, so that amounts     *)
(* with more than two decimals exist and toFixed(2) is a real rounding.    *)
(***************************************************************************)
EXTENDS Integers, Sequences, FiniteSets, TLC

VARIABLES env, item, nextDate, debt, upToDate, paymentsMade, displayedOwed,
          currentBalance, debts, bills, incomes, timelineEvents, chartData,
          loopDate, pushed, replay, pc,
          newItem, editingItemId, editFormData, clock, mockCurrentDate

\* the state each kind of run works on
resolveVars  == <<item, nextDate>>
paymentVars  == <<debt, upToDate, paymentsMade, displayedOwed>>
storeVars    == <<currentBalance, debts, bills, incomes>>
derivedVars  == <<timelineEvents, chartData>>
loopVars     == <<loopDate, pushed, replay>>
formVars     == <<newItem, editingItemId, editFormData, clock>>

vars == <<env, resolveVars, paymentVars, storeVars, derivedVars, loopVars, formVars,
          mockCurrentDate, pc>>

Null == "null"

\* the parts of the state a run does not use
NoResolve  == item = Null /\ nextDate = Null
NoPayments == debt = Null /\ upToDate = Null /\ paymentsMade = Null /\ displayedOwed = Null
NoStore    == currentBalance = Null /\ debts = <<>> /\ bills = <<>> /\ incomes = <<>>
NoDerived  == timelineEvents = <<>> /\ chartData = <<>>
NoLoop     == loopDate = Null /\ pushed = <<>> /\ replay = Null
NoForms    ==
    newItem = Null /\ editingItemId = Null /\ editFormData = Null /\ clock = Null
NoShared   == mockCurrentDate = Null /\ pc = Null

(***************************************************************************)
(* The Date built-in, as the source uses it (local-time field arithmetic). *)
(***************************************************************************)

\* day number of the civil date y-m-d; d may overflow the month either way.
\* yy and mp are the year and month counted from 1 March
DaysFromEra(era, yoe, doy) ==
    era * 146097 + yoe * 365 + yoe \div 4 - yoe \div 100 + doy - 719468

DaysFromShifted(yy, mp, d) ==
    DaysFromEra(yy \div 400, yy % 400, (153 * mp + 2) \div 5 + d - 1)

DaysFromCivil(y, m, d) ==
    IF m <= 2 THEN DaysFromShifted(y - 1, m + 9, d) ELSE DaysFromShifted(y, m - 3, d)

\* the civil date of a day number
CivilOfMonth(y, doy, mp) ==
    [year  |-> IF mp < 10 THEN y ELSE y + 1,
     month |-> IF mp < 10 THEN mp + 3 ELSE mp - 9,
     day   |-> doy - (153 * mp + 2) \div 5 + 1]

CivilOfYearDay(y, doy) == CivilOfMonth(y, doy, (5 * doy + 2) \div 153)

CivilOfEraYear(era, doe, yoe) ==
    CivilOfYearDay(yoe + era * 400, doe - (365 * yoe + yoe \div 4 - yoe \div 100))

CivilOfEraDay(era, doe) ==
    CivilOfEraYear(era, doe,
                   (doe - doe \div 1460 + doe \div 36524 - doe \div 146096) \div 365)

CivilFromDays(z) == CivilOfEraDay((z + 719468) \div 146097, (z + 719468) % 146097)

\* Date fields: getFullYear, getMonth (0-based), getDate, getDay (0 = Sunday)
getFullYear(t) == CivilFromDays(t \div 24).year
getMonth(t)    == CivilFromDays(t \div 24).month - 1
getDate(t)     == CivilFromDays(t \div 24).day
getDay(t)      == ((t \div 24) + 4) % 7

\* new Date(year, monthIndex, day) keeping the hour h; monthIndex and day
\* may be out of range and roll over into the following months / years
MakeDate(y, m0, d, h) ==
    DaysFromCivil(y + (m0 \div 12), (m0 % 12) + 1, d) * 24 + h

\* setDate(getDate() + n), setMonth(getMonth() + n), setFullYear(getFullYear() + n)
\* on the date whose fields are c and whose hour is h
addToFields(c, h, years, months, days) ==
    MakeDate(c.year + years, c.month - 1 + months, c.day + days, h)

addDays(t, n)   == addToFields(CivilFromDays(t \div 24), t % 24, 0, 0, n)
addMonths(t, n) == addToFields(CivilFromDays(t \div 24), t % 24, 0, n, 0)
addYears(t, n)  == addToFields(CivilFromDays(t \div 24), t % 24, n, 0, 0)

\* setHours(0, 0, 0, 0)
setHours0(t) == (t \div 24) * 24

\* new Date(startDate + 'T00:00:00'): local midnight of the stored day
ParseLocalDate(s) == s * 24

(***************************************************************************)
(* Environment: the local time zone.  off is the UTC offset in hours; skew *)
(* is 1 when a daylight-saving change between two local midnights makes    *)
(* their millisecond difference one hour short of a whole number of days.  *)
(***************************************************************************)
Zones == { [off |-> 0, skew |-> 0], [off |-> -5, skew |-> 1], [off |-> 13, skew |-> 0] }

\* new Date('2025-06-06T12:00:00.000Z') seen on the local wall clock
MOCK_CURRENT_DATE(e) == DaysFromCivil(2025, 6, 6) * 24 + 12 + e.off

Frequencies == {"weekly", "bi-weekly", "monthly", "annually", "one-time"}

\* Math.floor(diffTime / (1000 * 60 * 60 * 24))
diffDays(today, nd, e) == ((today - nd) - e.skew) \div 24

\* (today.getFullYear() - nextDate.getFullYear()) * 12
\*     + today.getMonth() - nextDate.getMonth()
monthDiff(today, nd) ==
    (getFullYear(today) - getFullYear(nd)) * 12 + getMonth(today) - getMonth(nd)

yearDiff(today, nd) == getFullYear(today) - getFullYear(nd)

\* if (nextDate > today) pull back one month / one year
pullBackMonth(jumped, today) == IF jumped > today THEN addMonths(jumped, -1) ELSE jumped
pullBackYear(jumped, today)  == IF jumped > today THEN addYears(jumped, -1) ELSE jumped

\* the jump of nextDate by n whole days (n = numWeeks * 7 or numPeriods * 14)
jumpDays(nd, days, period) ==
    IF days >= period THEN addDays(nd, (days \div period) * period) ELSE nd

\* the optimization jump block of getNextPaymentDate
jumpBlock(nd, today, frequency, e) ==
    IF ~(nd < today) THEN nd
    ELSE CASE frequency = "weekly"    -> jumpDays(nd, diffDays(today, nd, e), 7)
           [] frequency = "bi-weekly" -> jumpDays(nd, diffDays(today, nd, e), 14)
           [] frequency = "monthly" ->
                IF monthDiff(today, nd) > 0
                THEN pullBackMonth(addMonths(nd, monthDiff(today, nd)), today)
                ELSE nd
           [] frequency = "annually" ->
                IF yearDiff(today, nd) > 0
                THEN pullBackYear(addYears(nd, yearDiff(today, nd)), today)
                ELSE nd
           [] OTHER -> nd

\* one pass of the body of the refinement loop
refineStep(nd, frequency) ==
    CASE frequency = "weekly"    -> addDays(nd, 7)
      [] frequency = "bi-weekly" -> addDays(nd, 14)
      [] frequency = "monthly"   -> addMonths(nd, 1)
      [] frequency = "annually"  -> addYears(nd, 1)

\* the iterative refinement: while (nextDate < today) advance one period
RECURSIVE refine(_, _, _)
refine(nd, today, frequency) ==
    IF frequency \in {"weekly", "bi-weekly", "monthly", "annually"} /\ nd < today
    THEN refine(refineStep(nd, frequency), today, frequency)
    ELSE nd

\* the resolver moving a one-time date that is past up to today
getNextPaymentDate_fromToday(startDate, frequency, e) ==
    LET nd    == setHours0(startDate)
        today == setHours0(MOCK_CURRENT_DATE(e))
    IN  IF frequency = "one-time" THEN (IF nd < today THEN today ELSE nd)
        ELSE refine(jumpBlock(nd, today, frequency, e), today, frequency)

getNextPaymentDate(startDate, frequency, e) ==
    LET nd    == setHours0(startDate)
        today == setHours0(MOCK_CURRENT_DATE(e))
    IN  IF frequency = "one-time" THEN nd
        ELSE refine(jumpBlock(nd, today, frequency, e), today, frequency)

(***************************************************************************)
(* src/app.js, the earlier version of the component.  Its getNextPaymentDate*)
(* works on the shared MOCK_CURRENT_DATE object itself: mock is the value  *)
(* that object holds when the call is made.                                *)
(***************************************************************************)

\* const today = MOCK_CURRENT_DATE; today.setHours(0, 0, 0, 0): what the shared
\* object holds after a call
appjs_todaySetHours(mock) == setHours0(mock)

\* one pass of while (nextDate < today), nothing once the loop has ended
appjs_pass(nd, today, frequency) ==
    IF nd < today THEN refineStep(nd, frequency) ELSE nd

appjs_passes4(nd, today, frequency) ==
    appjs_pass(appjs_pass(appjs_pass(appjs_pass(nd, today, frequency),
                                     today, frequency), today, frequency), today, frequency)

\* the while loop of one case of the switch, four passes at a time
RECURSIVE appjs_while(_, _, _)
appjs_while(nd, today, frequency) ==
    IF nd < today
    THEN appjs_while(appjs_passes4(appjs_passes4(nd, today, frequency), today, frequency),
                     today, frequency)
    ELSE nd

\* what the call returns
appjs_getNextPaymentDate(startDate, frequency, mock) ==
    IF startDate >= appjs_todaySetHours(mock) THEN startDate
    ELSE IF frequency \in {"weekly", "bi-weekly", "monthly", "annually"}
         THEN appjs_while(startDate, appjs_todaySetHours(mock), frequency)
         ELSE startDate

(***************************************************************************)
(* calculatePaymentsMade: replay of a debt's schedule up to upToDate.      *)
(***************************************************************************)
Min(a, b) == IF a <= b THEN a ELSE b
Max(a, b) == IF a >= b THEN a ELSE b

\* the switch with a month taken as 30 days
advancePaymentDate_30days(paymentDate, frequency) ==
    CASE frequency = "weekly"    -> addDays(paymentDate, 7)
      [] frequency = "bi-weekly" -> addDays(paymentDate, 14)
      [] frequency = "monthly"   -> addDays(paymentDate, 30)
      [] frequency = "annually"  -> addYears(paymentDate, 1)

\* the switch with the break of the monthly case missing
advancePaymentDate_fallthrough(paymentDate, frequency) ==
    CASE frequency = "weekly"    -> addDays(paymentDate, 7)
      [] frequency = "bi-weekly" -> addDays(paymentDate, 14)
      [] frequency = "monthly"   ->
            addYears(addMonths(paymentDate, 1), 1)
      [] frequency = "annually"  -> addYears(paymentDate, 1)

\* the "Advance paymentDate" switch of the replay loop
advancePaymentDate(paymentDate, frequency) ==
    CASE frequency = "weekly"    -> addDays(paymentDate, 7)
      [] frequency = "bi-weekly" -> addDays(paymentDate, 14)
      [] frequency = "monthly"   -> addMonths(paymentDate, 1)
      [] frequency = "annually"  -> addYears(paymentDate, 1)

\* the pass without the clipping of the last payment
replayStep_noclip(d, st) ==
    LET tp == st.totalPayments + d.paymentAmount
        pd == Append(st.paid, st.paymentDate)
    IN  IF tp >= d.totalOwed
        THEN [totalPayments |-> tp, paymentDate |-> st.paymentDate,
              paid |-> pd, left |-> TRUE]
        ELSE IF d.frequency \in {"weekly", "bi-weekly", "monthly", "annually"}
             THEN [totalPayments |-> tp,
                   paymentDate |-> advancePaymentDate(st.paymentDate, d.frequency),
                   paid |-> pd, left |-> FALSE]
             ELSE [totalPayments |-> tp, paymentDate |-> st.paymentDate,
                   paid |-> pd, left |-> TRUE]

\* one pass of the body of the while loop.  st is the loop's state: the
\* running total, the payment date under test, the payment dates counted so
\* far (kept for the record) and whether the pass left the loop
replayStep(d, st) ==
    LET tp == st.totalPayments + d.paymentAmount
        pd == Append(st.paid, st.paymentDate)
    IN  IF tp >= d.totalOwed
        THEN [totalPayments |-> d.totalOwed, paymentDate |-> st.paymentDate,
              paid |-> pd, left |-> TRUE]
        ELSE IF d.frequency \in {"weekly", "bi-weekly", "monthly", "annually"}
             THEN [totalPayments |-> tp,
                   paymentDate |-> advancePaymentDate(st.paymentDate, d.frequency),
                   paid |-> pd, left |-> FALSE]
             ELSE [totalPayments |-> tp, paymentDate |-> st.paymentDate,
                   paid |-> pd, left |-> TRUE]

\* while (paymentDate <= processingDate) { ... }
RECURSIVE replayLoop(_, _, _)
replayLoop(d, st, processingDate) ==
    IF st.left \/ ~(st.paymentDate <= processingDate)
    THEN st
    ELSE replayLoop(d, replayStep(d, st), processingDate)

\* the replay with the comparison of the one-time branch turned round
replayPayments_flipped(d, upTo) ==
    LET paymentDate    == ParseLocalDate(d.startDate)
        processingDate == setHours0(upTo)
    IN  IF d.frequency = "one-time"
        THEN IF paymentDate >= processingDate
             THEN [totalPayments |-> Min(d.paymentAmount, d.totalOwed),
                   paymentDate |-> paymentDate, paid |-> <<paymentDate>>, left |-> TRUE]
             ELSE [totalPayments |-> 0, paymentDate |-> paymentDate, paid |-> <<>>,
                   left |-> TRUE]
        ELSE replayLoop(d, [totalPayments |-> 0, paymentDate |-> paymentDate,
                            paid |-> <<>>, left |-> FALSE], processingDate)

\* the replay with the as-of day itself left out of the one-time branch
replayPayments_strict(d, upTo) ==
    LET paymentDate    == ParseLocalDate(d.startDate)
        processingDate == setHours0(upTo)
    IN  IF d.frequency = "one-time"
        THEN IF paymentDate < processingDate
             THEN [totalPayments |-> Min(d.paymentAmount, d.totalOwed),
                   paymentDate |-> paymentDate, paid |-> <<paymentDate>>, left |-> TRUE]
             ELSE [totalPayments |-> 0, paymentDate |-> paymentDate, paid |-> <<>>,
                   left |-> TRUE]
        ELSE replayLoop(d, [totalPayments |-> 0, paymentDate |-> paymentDate,
                            paid |-> <<>>, left |-> FALSE], processingDate)

replayPayments(d, upTo) ==
    LET paymentDate    == ParseLocalDate(d.startDate)
        processingDate == setHours0(upTo)
    IN  IF d.frequency = "one-time"
        THEN IF paymentDate <= processingDate
             THEN [totalPayments |-> Min(d.paymentAmount, d.totalOwed),
                   paymentDate |-> paymentDate, paid |-> <<paymentDate>>, left |-> TRUE]
             ELSE [totalPayments |-> 0, paymentDate |-> paymentDate, paid |-> <<>>,
                   left |-> TRUE]
        ELSE replayLoop(d, [totalPayments |-> 0, paymentDate |-> paymentDate,
                            paid |-> <<>>, left |-> FALSE], processingDate)

calculatePaymentsMade(d, upTo) == replayPayments(d, upTo).totalPayments

\* renderItemRow: displayedOwed = Math.max(0, item.totalOwed - paymentsMade)
renderDisplayedOwed(d, made) == Max(0, d.totalOwed - made)

(***************************************************************************)
(* timelineEvents: enumeration, merge, sort and running balance.           *)
(***************************************************************************)

\* the horizon one day long
endDateOf_long(e) ==
    addDays(MOCK_CURRENT_DATE(e), 91)

\* the horizon one day short
endDateOf_short(e) ==
    addDays(MOCK_CURRENT_DATE(e), 89)

\* endDate = new Date(today); endDate.setDate(today.getDate() + 90)
endDateOf(e) ==
    addDays(MOCK_CURRENT_DATE(e), 90)

\* the period switch without its annual case
nextOccurrence_noannual(currentDate, frequency) ==
    CASE frequency = "weekly"    -> addDays(currentDate, 7)
      [] frequency = "bi-weekly" -> addDays(currentDate, 14)
      [] frequency = "monthly"   -> addMonths(currentDate, 1)
      [] OTHER -> currentDate

\* the period switch inside generateEvents (an unknown frequency leaves the
\* date where it is)
nextOccurrence(currentDate, frequency) ==
    CASE frequency = "weekly"    -> addDays(currentDate, 7)
      [] frequency = "bi-weekly" -> addDays(currentDate, 14)
      [] frequency = "monthly"   -> addMonths(currentDate, 1)
      [] frequency = "annually"  -> addYears(currentDate, 1)
      [] OTHER -> currentDate

\* the while (currentDate <= endDate) loop for one item
RECURSIVE itemEvents(_, _, _, _, _)
itemEvents(it, type, amountKey, currentDate, endDate) ==
    IF currentDate <= endDate
    THEN <<[date |-> currentDate, description |-> it.name,
            amount |-> it[amountKey], type |-> type]>>
         \o (IF it.frequency = "one-time" THEN <<>>
             ELSE itemEvents(it, type, amountKey,
                             nextOccurrence(currentDate, it.frequency), endDate))
    ELSE <<>>

\* source.forEach(item => ...): the events pushed for one collection
RECURSIVE generateEvents(_, _, _, _)
generateEvents(source, type, amountKey, e) ==
    IF source = <<>> THEN <<>>
    ELSE itemEvents(Head(source), type, amountKey,
                    getNextPaymentDate(ParseLocalDate(Head(source).startDate),
                                       Head(source).frequency, e),
                    endDateOf(e))
         \o generateEvents(Tail(source), type, amountKey, e)

\* the insertion placing ev before the entries of its own date
RECURSIVE insertSorted_unstable(_, _)
insertSorted_unstable(sorted, ev) ==
    IF sorted = <<>> THEN <<ev>>
    ELSE IF Head(sorted).date - ev.date >= 0
         THEN <<ev>> \o sorted
         ELSE <<Head(sorted)>> \o insertSorted_unstable(Tail(sorted), ev)

\* insertion of ev into an already sorted sequence, after every entry that
\* does not compare greater (Array.prototype.sort is stable)
RECURSIVE insertSorted(_, _)
insertSorted(sorted, ev) ==
    IF sorted = <<>> THEN <<ev>>
    ELSE IF Head(sorted).date - ev.date > 0
         THEN <<ev>> \o sorted
         ELSE <<Head(sorted)>> \o insertSorted(Tail(sorted), ev)

\* events.sort((a, b) => a.date - b.date)
RECURSIVE sortEvents(_)
sortEvents(events) ==
    IF events = <<>> THEN <<>>
    ELSE insertSorted(sortEvents(SubSeq(events, 1, Len(events) - 1)),
                      events[Len(events)])

\* Number.prototype.toFixed(2): the value rounded to whole cents, halves
\* away from zero; the result counts cents
toFixed2(x) ==
    IF x >= 0 THEN (x + 5) \div 10 ELSE -((5 - x) \div 10)

\* every event taken as money coming in
applyEvent_credit(runningBalance, event) ==
    runningBalance + event.amount

\* the balance carried as it is displayed, rounded to cents
applyEvent_rounded(runningBalance, event) ==
    10 * toFixed2(runningBalance
                  + (IF event.type = "income" THEN event.amount ELSE -event.amount))

\* runningBalance += (event.type === 'income' ? event.amount : -event.amount)
applyEvent(runningBalance, event) ==
    runningBalance + (IF event.type = "income" THEN event.amount ELSE -event.amount)

\* events.map(event => ({...event, runningBalance: runningBalance.toFixed(2)}))
RECURSIVE foldBalance(_, _)
foldBalance(events, runningBalance) ==
    IF events = <<>> THEN <<>>
    ELSE LET rb == applyEvent(runningBalance, Head(events))
             ev == Head(events)
         IN  <<[date |-> ev.date, description |-> ev.description,
                amount |-> ev.amount, type |-> ev.type,
                runningBalance |-> toFixed2(rb)]>>
             \o foldBalance(Tail(events), rb)

\* the useMemo body
computeTimeline(balance, ds, bs, is, e) ==
    LET events == generateEvents(is, "income", "amount", e)
                  \o generateEvents(bs, "expense", "amount", e)
                  \o generateEvents(ds, "expense", "paymentAmount", e)
    IN  foldBalance(sortEvents(events), balance)

(***************************************************************************)
(* chartData: the timeline entries summed by week.                         *)
(***************************************************************************)

\* the week taken to start on Monday
weekStart_monday(date) ==
    addToFields(CivilFromDays(date \div 24), 0, 0, 0, 1 - getDay(date))

\* new Date(date.getFullYear(), date.getMonth(), date.getDate() - date.getDay())
weekStart(date) ==
    addToFields(CivilFromDays(date \div 24), 0, 0, 0, 0 - getDay(date))

\* toLocaleDateString(): the year, month and day of the local date, printed
toLocaleDateString(t) == CivilFromDays(t \div 24)

\* `Week of ${...toLocaleDateString()}`
weekName(event) == <<"Week of", toLocaleDateString(weekStart(event.date))>>

\* dataMap.has(week): the position of the week in the map, 0 when absent.
\* The map keeps its keys in insertion order
RECURSIVE weekIndex(_, _, _)
weekIndex(dataMap, week, i) ==
    IF i > Len(dataMap) THEN 0
    ELSE IF dataMap[i].name = week THEN i
    ELSE weekIndex(dataMap, week, i + 1)

\* a new bucket set for every event, whether the week has one or not
ensureWeek_always(dataMap, week) ==
    Append(dataMap, [name |-> week, income |-> 0, expenses |-> 0])

\* if (!dataMap.has(week)) dataMap.set(week, {name: week, income: 0, expenses: 0})
ensureWeek(dataMap, week) ==
    IF weekIndex(dataMap, week, 1) = 0
    THEN Append(dataMap, [name |-> week, income |-> 0, expenses |-> 0])
    ELSE dataMap

\* every amount added to the income of the week
addToWeek_allIncome(weekData, event) ==
    [weekData EXCEPT !.income = @ + event.amount]

\* weekData.income += event.amount, or weekData.expenses += event.amount
addToWeek(weekData, event) ==
    IF event.type = "income"
    THEN [weekData EXCEPT !.income = @ + event.amount]
    ELSE [weekData EXCEPT !.expenses = @ + event.amount]

\* weekData = dataMap.get(week), then the sum of the event's kind grows
updateWeek(dataMap, week, event) ==
    [dataMap EXCEPT ![weekIndex(dataMap, week, 1)] = addToWeek(@, event)]

\* the body of timelineEvents.forEach for one event, week being its week
addEventToWeek(dataMap, week, event) ==
    updateWeek(ensureWeek(dataMap, week), week, event)

addEvent(dataMap, event) == addEventToWeek(dataMap, weekName(event), event)

\* one pass of timelineEvents.forEach.  st is the state of the iteration:
\* the map built so far and the position of the next entry
chartStep(entries, st) ==
    [dataMap |-> addEvent(st.dataMap, entries[st.next]), next |-> st.next + 1]

\* timelineEvents.forEach(event => ...)
RECURSIVE chartLoop(_, _)
chartLoop(entries, st) ==
    IF st.next > Len(entries) THEN st.dataMap
    ELSE chartLoop(entries, chartStep(entries, st))

\* the useMemo body: Array.from(dataMap.values())
computeChartData(entries) == chartLoop(entries, [dataMap |-> <<>>, next |-> 1])

(***************************************************************************)
(* The timeline of src/app.js.  Its code is that of the later version, but *)
(* it calls the getNextPaymentDate that works on the shared date: mock is  *)
(* what MOCK_CURRENT_DATE holds when the computation starts.               *)
(***************************************************************************)

\* endDate = new Date(today); endDate.setDate(today.getDate() + 90), taken
\* before the first call of getNextPaymentDate
appjs_endDateOf(mock) == addDays(mock, 90)

\* source.forEach(item => ...)
RECURSIVE appjs_generateEvents(_, _, _, _)
appjs_generateEvents(source, type, amountKey, mock) ==
    IF source = <<>> THEN <<>>
    ELSE itemEvents(Head(source), type, amountKey,
                    appjs_getNextPaymentDate(ParseLocalDate(Head(source).startDate),
                                             Head(source).frequency, mock),
                    appjs_endDateOf(mock))
         \o appjs_generateEvents(Tail(source), type, amountKey, mock)

\* the useMemo body
appjs_computeTimeline(balance, ds, bs, is, mock) ==
    foldBalance(sortEvents(appjs_generateEvents(is, "income", "amount", mock)
                           \o appjs_generateEvents(bs, "expense", "amount", mock)
                           \o appjs_generateEvents(ds, "expense", "paymentAmount", mock)),
                balance)

\* what MOCK_CURRENT_DATE holds after the computation: every item makes one
\* call of getNextPaymentDate
appjs_mockAfter(ds, bs, is, mock) ==
    IF Len(is) + Len(bs) + Len(ds) = 0 THEN mock ELSE appjs_todaySetHours(mock)

(***************************************************************************)
(* Inputs and bounds.                                                      *)
(***************************************************************************)
Day(y, m, d) == DaysFromCivil(y, m, d)

\* how many years before 2025 the start dates of the resolver runs reach
MaxYearsBack == 3
\* how many days after the reference date the as-of date advances
MaxAsOfDays == 50
\* how many items the three collections hold together
MaxItems == 3

ResolveStartDates ==
    (Day(2025 - MaxYearsBack, 1, 1) .. Day(2026, 12, 31))
    \cup {Day(2016, 2, 29), Day(2019, 12, 31), Day(2020, 2, 29)}

DebtTerms ==
    { [totalOwed |-> 15000000, paymentAmount |-> 350000],
      [totalOwed |-> 2500000,  paymentAmount |-> 100000],
      [totalOwed |-> 700000,   paymentAmount |-> 350000],
      [totalOwed |-> 300000,   paymentAmount |-> 350000],
      [totalOwed |-> 1000,     paymentAmount |-> 4],
      [totalOwed |-> 1000000,  paymentAmount |-> 0],
      [totalOwed |-> 0,        paymentAmount |-> 0] }

PaymentStartDates ==
    { Day(2025, 6, 15), Day(2025, 6, 25), Day(2025, 6, 6), Day(2025, 6, 7),
      Day(2025, 5, 31), Day(2025, 1, 31), Day(2024, 2, 29), Day(2025, 7, 20) }

PaymentDebts ==
    { [id |-> 1, name |-> "Car Loan", totalOwed |-> t.totalOwed,
       paymentAmount |-> t.paymentAmount, frequency |-> f, startDate |-> s] :
      t \in DebtTerms, f \in Frequencies, s \in PaymentStartDates }

IncomeInputs ==
    { [amount |-> 2000000, frequency |-> "bi-weekly", startDate |-> Day(2025, 6, 13)],
      [amount |-> 4,       frequency |-> "weekly",    startDate |-> Day(2025, 6, 6)],
      [amount |-> 500000,  frequency |-> "one-time",  startDate |-> Day(2025, 6, 1)],
      [amount |-> 2000000, frequency |-> "monthly",   startDate |-> Day(2025, 1, 31)] }

BillInputs ==
    { [amount |-> 1200000, frequency |-> "monthly",   startDate |-> Day(2025, 6, 1)],
      [amount |-> 40004,   frequency |-> "weekly",    startDate |-> Day(2023, 6, 8)],
      [amount |-> 1200000, frequency |-> "one-time",  startDate |-> Day(2025, 9, 5)],
      [amount |-> 60000,   frequency |-> "annually",  startDate |-> Day(2024, 7, 1)],
      [amount |-> 1200000, frequency |-> "bi-weekly", startDate |-> Day(2025, 12, 25)] }

DebtInputs ==
    { [totalOwed |-> 15000000, paymentAmount |-> 350000, frequency |-> "monthly",
       startDate |-> Day(2025, 6, 15)],
      [totalOwed |-> 300000, paymentAmount |-> 350000, frequency |-> "monthly",
       startDate |-> Day(2025, 6, 15)],
      [totalOwed |-> 2500000, paymentAmount |-> 100000, frequency |-> "monthly",
       startDate |-> Day(2025, 1, 31)],
      [totalOwed |-> 2500000, paymentAmount |-> 100000, frequency |-> "bi-weekly",
       startDate |-> Day(2025, 6, 13)],
      [totalOwed |-> 5000000, paymentAmount |-> 5000000, frequency |-> "one-time",
       startDate |-> Day(2025, 7, 1)] }

Balances == {0, 5000000}

\* a collection as the program stores it: every input gets its position as
\* id and a name that tells its collection and position
asCollection(kind, inputs) ==
    [i \in 1..Len(inputs) |->
        IF kind = "debt"
        THEN [id |-> i, name |-> <<kind, i>>, totalOwed |-> inputs[i].totalOwed,
              paymentAmount |-> inputs[i].paymentAmount,
              frequency |-> inputs[i].frequency, startDate |-> inputs[i].startDate]
        ELSE [id |-> i, name |-> <<kind, i>>, amount |-> inputs[i].amount,
              frequency |-> inputs[i].frequency, startDate |-> inputs[i].startDate]]

(***************************************************************************)
(* Resolver runs: renderItemRow computes the next due date of one item.    *)
(***************************************************************************)
InitResolve ==
    /\ env \in Zones
    /\ item \in [startDate : ResolveStartDates, frequency : {"monthly"}]
    /\ nextDate = getNextPaymentDate(ParseLocalDate(item.startDate), item.frequency, env)
    /\ NoPayments /\ NoStore /\ NoDerived /\ NoLoop /\ NoForms /\ NoShared

\* the frequency of the item is changed and the row is rendered again
SetFrequency ==
    /\ \E f \in Frequencies \ {item.frequency} :
         /\ item' = [item EXCEPT !.frequency = f]
         /\ nextDate' = getNextPaymentDate(ParseLocalDate(item.startDate), f, env)
    /\ UNCHANGED <<env, paymentVars, storeVars, derivedVars, loopVars, formVars,
                   mockCurrentDate, pc>>

SpecResolve == InitResolve /\ [][SetFrequency]_vars

(***************************************************************************)
(* Amortization runs: renderItemRow shows what is still owed on one debt   *)
(* as of a date, and the date moves forward day by day.                    *)
(***************************************************************************)
InitPayments ==
    /\ env \in Zones
    /\ debt \in PaymentDebts
    /\ upToDate = MOCK_CURRENT_DATE(env)
    /\ paymentsMade = calculatePaymentsMade(debt, upToDate)
    /\ displayedOwed = renderDisplayedOwed(debt, paymentsMade)
    /\ NoResolve /\ NoStore /\ NoDerived /\ NoLoop /\ NoForms /\ NoShared

AdvanceAsOf ==
    /\ upToDate < MOCK_CURRENT_DATE(env) + MaxAsOfDays * 24
    /\ upToDate' = upToDate + 24
    /\ paymentsMade' = calculatePaymentsMade(debt, upToDate')
    /\ displayedOwed' = renderDisplayedOwed(debt, paymentsMade')
    /\ UNCHANGED <<env, debt, resolveVars, storeVars, derivedVars, loopVars, formVars,
                   mockCurrentDate, pc>>

SpecPayments == InitPayments /\ [][AdvanceAsOf]_vars

(***************************************************************************)
(* Timeline runs: the memoized timeline of a set of collections, recomputed*)
(* when the starting balance is edited.                                    *)
(***************************************************************************)
InitTimeline ==
    /\ env \in Zones
    /\ currentBalance = 5000000
    /\ \E ni \in 0..MaxItems :
         \E nb \in 0..(MaxItems - ni) :
           \E nd \in 0..(MaxItems - ni - nb) :
             \E is \in [1..ni -> IncomeInputs], bs \in [1..nb -> BillInputs],
                ds \in [1..nd -> DebtInputs] :
                  /\ incomes = asCollection("income", is)
                  /\ bills = asCollection("bill", bs)
                  /\ debts = asCollection("debt", ds)
    /\ timelineEvents = computeTimeline(currentBalance, debts, bills, incomes, env)
    /\ chartData = <<>>
    /\ NoResolve /\ NoPayments /\ NoLoop /\ NoForms /\ NoShared

\* onChange of the balance input: setCurrentBalance(parseFloat(value) || 0)
SetCurrentBalance ==
    /\ \E b \in Balances :
         /\ b # currentBalance
         /\ currentBalance' = b
         /\ timelineEvents' = computeTimeline(b, debts, bills, incomes, env)
    /\ UNCHANGED chartData
    /\ UNCHANGED <<env, debts, bills, incomes, resolveVars, paymentVars, loopVars,
                   formVars, mockCurrentDate, pc>>

SpecTimeline == InitTimeline /\ [][SetCurrentBalance]_vars

(***************************************************************************)
(* Chart runs: the weekly summary of the timeline of a set of collections, *)
(* recomputed when an item is deleted.                                     *)
(***************************************************************************)

\* how many items the three collections of a chart run hold together
MaxChartItems == 3

ChartIncomes ==
    { [amount |-> 2000000, frequency |-> "bi-weekly", startDate |-> Day(2025, 6, 6)],
      [amount |-> 500000,  frequency |-> "one-time",  startDate |-> Day(2025, 6, 1)] }

ChartBills ==
    { [amount |-> 40004,   frequency |-> "weekly",  startDate |-> Day(2025, 6, 12)],
      [amount |-> 1200000, frequency |-> "monthly", startDate |-> Day(2025, 6, 7)] }

ChartDebts ==
    { [totalOwed |-> 2500000, paymentAmount |-> 100000, frequency |-> "bi-weekly",
       startDate |-> Day(2025, 6, 20)] }

InitChart ==
    /\ env \in Zones
    /\ currentBalance = 5000000
    /\ \E ni \in 0..MaxChartItems :
         \E nb \in 0..(MaxChartItems - ni) :
           \E nd \in 0..(MaxChartItems - ni - nb) :
             \E is \in [1..ni -> ChartIncomes], bs \in [1..nb -> ChartBills],
                ds \in [1..nd -> ChartDebts] :
                  /\ incomes = asCollection("income", is)
                  /\ bills = asCollection("bill", bs)
                  /\ debts = asCollection("debt", ds)
    /\ timelineEvents = computeTimeline(currentBalance, debts, bills, incomes, env)
    /\ chartData = computeChartData(timelineEvents)
    /\ NoResolve /\ NoPayments /\ NoLoop /\ NoForms /\ NoShared

\* debts.filter(d => d.id !== id)
deleteById(collection, id) == SelectSeq(collection, LAMBDA x : x.id # id)

\* the delete taking the id out of all three collections
handleDeleteItem_everywhere(type, id) ==
    /\ debts' = deleteById(debts, id)
    /\ bills' = deleteById(bills, id)
    /\ incomes' = deleteById(incomes, id)

\* handleDeleteItem(type, id), the confirmation given
handleDeleteItem(type, id) ==
    CASE type = "debt"   -> debts' = deleteById(debts, id) /\ UNCHANGED <<bills, incomes>>
      [] type = "bill"   -> bills' = deleteById(bills, id) /\ UNCHANGED <<debts, incomes>>
      [] type = "income" -> incomes' = deleteById(incomes, id) /\ UNCHANGED <<debts, bills>>

\* handleDeleteItem(type, id), confirmed being what window.confirm returns
askDeleteItem(type, id, confirmed) ==
    IF confirmed THEN handleDeleteItem(type, id) ELSE UNCHANGED <<debts, bills, incomes>>

\* the ids shown in the rows of one collection
idsOf(collection) == {collection[i].id : i \in 1..Len(collection)}

rowsOf(type) ==
    CASE type = "debt" -> debts [] type = "bill" -> bills [] type = "income" -> incomes

\* the delete button of a row is pressed and the component renders again
DeleteItemAndRender ==
    /\ \E type \in {"debt", "bill", "income"} :
         \E id \in idsOf(rowsOf(type)) :
           \E confirmed \in BOOLEAN : askDeleteItem(type, id, confirmed)
    /\ timelineEvents' = computeTimeline(currentBalance, debts', bills', incomes', env)
    /\ chartData' = computeChartData(timelineEvents')
    /\ UNCHANGED <<env, currentBalance, resolveVars, paymentVars, loopVars, formVars,
                   mockCurrentDate, pc>>

SpecChart == InitChart /\ [][DeleteItemAndRender]_vars

(***************************************************************************)
(* Runs of src/app.js: the module is loaded, the component renders for the *)
(* first time, and renders again when the balance is edited or an item is  *)
(* deleted.  MOCK_CURRENT_DATE is one object shared by all the calls.      *)
(***************************************************************************)
InitAppJs ==
    /\ env \in Zones
    /\ currentBalance = 5000000
    /\ \E ni \in 0..MaxChartItems :
         \E nb \in 0..(MaxChartItems - ni) :
           \E nd \in 0..(MaxChartItems - ni - nb) :
             \E is \in [1..ni -> ChartIncomes], bs \in [1..nb -> ChartBills],
                ds \in [1..nd -> ChartDebts] :
                  /\ incomes = asCollection("income", is)
                  /\ bills = asCollection("bill", bs)
                  /\ debts = asCollection("debt", ds)
    /\ mockCurrentDate = MOCK_CURRENT_DATE(env)
    /\ pc = "loaded"
    /\ NoDerived /\ NoResolve /\ NoPayments /\ NoLoop /\ NoForms

\* the render: both memos are computed and the shared date is left as the
\* calls of getNextPaymentDate have set it
appjs_render ==
    /\ timelineEvents' = appjs_computeTimeline(currentBalance', debts', bills', incomes',
                                               mockCurrentDate)
    /\ chartData' = computeChartData(timelineEvents')
    /\ mockCurrentDate' = appjs_mockAfter(debts', bills', incomes', mockCurrentDate)

\* the first render of the component
appjs_Mount ==
    /\ pc = "loaded"
    /\ pc' = "mounted"
    /\ UNCHANGED storeVars
    /\ appjs_render
    /\ UNCHANGED <<env, resolveVars, paymentVars, loopVars, formVars>>

\* onChange of the balance input
appjs_SetCurrentBalance ==
    /\ pc = "mounted"
    /\ \E b \in Balances : b # currentBalance /\ currentBalance' = b
    /\ UNCHANGED <<debts, bills, incomes>>
    /\ appjs_render
    /\ UNCHANGED <<env, pc, resolveVars, paymentVars, loopVars, formVars>>

\* the delete button of a row
appjs_DeleteItem ==
    /\ pc = "mounted"
    /\ \E type \in {"debt", "bill", "income"} :
         \E id \in idsOf(rowsOf(type)) :
           \E confirmed \in BOOLEAN : askDeleteItem(type, id, confirmed)
    /\ UNCHANGED currentBalance
    /\ appjs_render
    /\ UNCHANGED <<env, pc, resolveVars, paymentVars, loopVars, formVars>>

NextAppJs == appjs_Mount \/ appjs_SetCurrentBalance \/ appjs_DeleteItem

SpecAppJs == InitAppJs /\ [][NextAppJs]_vars

(***************************************************************************)
(* Enumeration runs: the while loop of generateEvents for one item, pass   *)
(* by pass.  The item may carry a frequency the switch does not know.      *)
(***************************************************************************)

\* how many passes of the loop a run follows
MaxPasses == 15

\* a value no case of the switch matches, and a missing frequency
UnknownFrequencies == {"quarterly", "undefined"}

EnumStartDates ==
    { Day(2025, 6, 1), Day(2025, 6, 6), Day(2025, 6, 13), Day(2025, 9, 5),
      Day(2025, 1, 31), Day(2023, 6, 8) }

\* let currentDate = getNextPaymentDate(new Date(item.startDate + 'T00:00:00'), ...)
InitEnumerate ==
    /\ env \in Zones
    /\ item \in [startDate : EnumStartDates,
                 frequency : Frequencies \cup UnknownFrequencies]
    /\ nextDate = Null
    /\ loopDate = getNextPaymentDate(ParseLocalDate(item.startDate), item.frequency, env)
    /\ pushed = <<>>
    /\ replay = Null
    /\ pc = "loop"
    /\ mockCurrentDate = Null
    /\ NoPayments /\ NoStore /\ NoDerived /\ NoForms

\* one pass of the body of while (currentDate <= endDate)
LoopPass ==
    /\ pc = "loop"
    /\ loopDate <= endDateOf(env)
    /\ Len(pushed) < MaxPasses
    /\ pushed' = Append(pushed, loopDate)
    /\ IF item.frequency = "one-time"
       THEN pc' = "done" /\ UNCHANGED loopDate
       ELSE pc' = "loop" /\ loopDate' = nextOccurrence(loopDate, item.frequency)
    /\ UNCHANGED <<env, resolveVars, paymentVars, storeVars, derivedVars, formVars,
                   mockCurrentDate, replay>>

\* the loop condition fails
LoopExit ==
    /\ pc = "loop"
    /\ ~(loopDate <= endDateOf(env))
    /\ pc' = "done"
    /\ UNCHANGED <<env, resolveVars, paymentVars, storeVars, derivedVars, loopVars,
                   formVars, mockCurrentDate>>

NextEnumerate == LoopPass \/ LoopExit

SpecEnumerate == InitEnumerate /\ [][NextEnumerate]_vars

(***************************************************************************)
(* Loop runs: the three loops one debt goes through when the component     *)
(* renders, pass by pass: the refinement loop of getNextPaymentDate, the   *)
(* while loop of generateEvents, and the replay loop of                    *)
(* calculatePaymentsMade that renderItemRow calls.                         *)
(***************************************************************************)

\* how many passes of the replay loop a run follows
MaxReplays == 40

\* debts that start on, before, after and far from the reference date, with
\* nothing owed and nothing paid among them
LoopDebts ==
    [startDate : { Day(2025, 6, 6), Day(2025, 6, 13), Day(2025, 1, 31),
                   Day(2025, 9, 5), Day(2031, 3, 1) },
     frequency : Frequencies,
     totalOwed : {0, 1000000}, paymentAmount : {0, 350000}]
      \cup [startDate : { Day(2022, 6, 8) },
            frequency : {"monthly", "annually", "one-time"},
            totalOwed : {0, 1000000}, paymentAmount : {0, 350000}]
      \cup [startDate : { Day(1999, 12, 31) },
            frequency : {"annually", "one-time"},
            totalOwed : {0, 1000000}, paymentAmount : {0, 350000}]

\* the loop state calculatePaymentsMade starts from: let totalPayments = 0,
\* paymentDate = new Date(debt.startDate + 'T00:00:00')
replayInit(d) ==
    [totalPayments |-> 0, paymentDate |-> ParseLocalDate(d.startDate),
     paid |-> <<>>, left |-> FALSE]

\* getNextPaymentDate up to its refinement switch.  currentDate is assigned
\* when the call returns; until then it is shown as the date the call works
\* on
InitLoops ==
    /\ env \in Zones
    /\ item \in LoopDebts
    /\ nextDate = jumpBlock(setHours0(ParseLocalDate(item.startDate)),
                            setHours0(MOCK_CURRENT_DATE(env)), item.frequency, env)
    /\ loopDate = nextDate
    /\ pushed = <<>>
    /\ replay = replayInit(item)
    /\ pc = "refine"
    /\ mockCurrentDate = Null
    /\ NoPayments /\ NoStore /\ NoDerived /\ NoForms

\* the cases of the refinement switch
Recurring == {"weekly", "bi-weekly", "monthly", "annually"}

\* one pass of while (nextDate < today)
RefinePass ==
    /\ pc = "refine"
    /\ item.frequency \in Recurring
    /\ nextDate < setHours0(MOCK_CURRENT_DATE(env))
    /\ nextDate' = refineStep(nextDate, item.frequency)
    /\ loopDate' = nextDate'
    /\ UNCHANGED <<env, item, paymentVars, storeVars, derivedVars, pushed, replay,
                   formVars, mockCurrentDate, pc>>

\* return nextDate (of the one-time branch or after the switch); the caller
\* takes it as currentDate
RefineExit ==
    /\ pc = "refine"
    /\ ~(item.frequency \in Recurring /\ nextDate < setHours0(MOCK_CURRENT_DATE(env)))
    /\ loopDate' = nextDate
    /\ pc' = "loop"
    /\ UNCHANGED <<env, resolveVars, paymentVars, storeVars, derivedVars, pushed, replay,
                   formVars, mockCurrentDate>>

\* calculatePaymentsMade(item, MOCK_CURRENT_DATE) up to its while loop; the
\* one-time branch returns at once
ReplayStart ==
    /\ pc = "done"
    /\ replay' = IF item.frequency = "one-time"
                 THEN replayPayments(item, MOCK_CURRENT_DATE(env))
                 ELSE replayInit(item)
    /\ pc' = "replay"
    /\ UNCHANGED <<env, resolveVars, paymentVars, storeVars, derivedVars, loopDate,
                   pushed, formVars, mockCurrentDate>>

\* one pass of while (paymentDate <= processingDate)
ReplayPass ==
    /\ pc = "replay"
    /\ ~replay.left
    /\ replay.paymentDate <= setHours0(MOCK_CURRENT_DATE(env))
    /\ Len(replay.paid) < MaxReplays
    /\ replay' = replayStep(item, replay)
    /\ UNCHANGED <<env, resolveVars, paymentVars, storeVars, derivedVars, loopDate,
                   pushed, formVars, mockCurrentDate, pc>>

\* return totalPayments
ReplayExit ==
    /\ pc = "replay"
    /\ replay.left \/ ~(replay.paymentDate <= setHours0(MOCK_CURRENT_DATE(env)))
    /\ pc' = "rendered"
    /\ UNCHANGED <<env, resolveVars, paymentVars, storeVars, derivedVars, loopVars,
                   formVars, mockCurrentDate>>

NextLoops ==
    RefinePass \/ RefineExit \/ LoopPass \/ LoopExit \/ ReplayStart \/ ReplayPass
      \/ ReplayExit

SpecLoops == InitLoops /\ [][NextLoops]_vars

\* a loop that can make a pass makes it: the render runs to its end
FairLoops == SpecLoops /\ WF_vars(NextLoops)

(***************************************************************************)
(* Forms: the handlers of the add form and of the edit rows.  The text of  *)
(* an amount field is kept as what parseFloat makes of it: numeric says    *)
(* whether it reads a number, value is that number.  The text of a date    *)
(* field is a day number, the empty text the value EmptyDate.  A null      *)
(* editingItemId is the empty tuple, an id i the tuple <<i>>; a null       *)
(* editFormData and the closed add form have the type Null.                *)
(***************************************************************************)

\* how many different milliseconds Date.now() can read during a run
MaxTicks == 2
\* how many items the three collections hold together while forms are used
MaxStored == 2
\* how many days before the dates of the run a start date may come to lie
MaxDrift == 1

\* '' and 'abc': parseFloat gives NaN
NotANumber == [numeric |-> FALSE, value |-> 0]
\* the text of the number v, or the number v itself
Num(v) == [numeric |-> TRUE, value |-> v]
\* startDate: '', below every 'YYYY-MM-DD'
EmptyDate == DaysFromCivil(0, 1, 1) - 1

NumericFields == {"totalOwed", "paymentAmount", "amount"}

\* const fields = { debt: [...], bill: [...], income: [...] }[type]
fieldsOf(type) ==
    IF type = "debt"
    THEN {"name", "totalOwed", "paymentAmount", "frequency", "startDate"}
    ELSE {"name", "amount", "frequency", "startDate"}

\* what the user puts into a field; the other fields are left as they are
TypedValues(field) ==
    CASE field = "amount"        -> {Num(0 - 5000), NotANumber}
      [] field = "paymentAmount" -> {Num(0 - 5000)}
      [] field = "startDate"     -> {EmptyDate, Day(2025, 6, 13)}
      [] OTHER                   -> {}

\* Date.now(): milliseconds, counted from a base above the initial ids
ClockValues == {1000 + k : k \in 1..MaxTicks}

\* useState({ type: null, data: {} })
closedForm == [type |-> Null, data |-> <<>>]
\* useState(null) of editFormData
noEditForm == [type |-> Null]

defaultData(type) ==
    CASE type = "debt" ->
           [name |-> "", totalOwed |-> Num(0), paymentAmount |-> Num(0),
            frequency |-> "monthly", startDate |-> EmptyDate]
      [] type = "bill" ->
           [name |-> "", amount |-> Num(0), frequency |-> "monthly",
            startDate |-> EmptyDate]
      [] type = "income" ->
           [name |-> "", amount |-> Num(0), frequency |-> "bi-weekly",
            startDate |-> EmptyDate]

\* handleAddItem(type)
handleAddItem(type) == newItem' = [type |-> type, data |-> defaultData(type)]

\* setNewItem({...newItem, data: {...data, [field]: e.target.value}})
changeNewItem(field, value) ==
    newItem' = [newItem EXCEPT !.data = [f \in DOMAIN newItem.data \cup {field} |->
                                            IF f = field THEN value ELSE newItem.data[f]]]

\* parseFloat(data[field]) || 0
parseFloatOr0(data, field) ==
    IF field \in DOMAIN data /\ data[field].numeric /\ data[field].value # 0
    THEN data[field].value
    ELSE 0

\* { ...data, id, totalOwed: ..., paymentAmount: ..., amount: ... }
itemWithId(data, id) ==
    [f \in DOMAIN data \cup NumericFields \cup {"id"} |->
        IF f = "id" THEN id
        ELSE IF f \in NumericFields THEN parseFloatOr0(data, f)
        ELSE data[f]]

\* setDebts([...debts, itemWithId]) and the like
appendItem(type, it) ==
    CASE type = "debt"   -> debts' = Append(debts, it) /\ UNCHANGED <<bills, incomes>>
      [] type = "bill"   -> bills' = Append(bills, it) /\ UNCHANGED <<debts, incomes>>
      [] type = "income" -> incomes' = Append(incomes, it) /\ UNCHANGED <<debts, bills>>

\* handleSaveNewItem(), Date.now() reading now
handleSaveNewItem(now) ==
    IF newItem.data.startDate = EmptyDate
    THEN UNCHANGED <<debts, bills, incomes, newItem, clock>>
    ELSE /\ clock' = now
         /\ appendItem(newItem.type, itemWithId(newItem.data, now))
         /\ newItem' = closedForm

\* new Date(item.startDate + 'T00:00:00').toISOString().split('T')[0]
toISODate(s, e) == (ParseLocalDate(s) - e.off) \div 24

formattedStartDate(it, e) ==
    IF it.startDate = EmptyDate THEN EmptyDate ELSE toISODate(it.startDate, e)

\* { ...item, type, startDate: formattedStartDate }
editFormOf(type, it, e) ==
    [f \in DOMAIN it \cup {"type"} |->
        IF f = "type" THEN type
        ELSE IF f = "startDate" THEN formattedStartDate(it, e)
        ELSE IF f \in NumericFields THEN Num(it[f])
        ELSE it[f]]

\* handleStartEdit(type, item)
handleStartEdit(type, it, e) ==
    /\ editingItemId' = <<it.id>>
    /\ editFormData' = editFormOf(type, it, e)

\* handleCancelEdit()
handleCancelEdit == editingItemId' = <<>> /\ editFormData' = noEditForm

\* handleChangeEditForm(e)
handleChangeEditForm(name, value) ==
    editFormData' = [f \in DOMAIN editFormData \cup {name} |->
                        IF f = name THEN value ELSE editFormData[f]]

\* const savedData = { ...data, totalOwed: ..., paymentAmount: ..., amount: ... }
savedData ==
    [f \in (DOMAIN editFormData \ {"type"}) \cup NumericFields |->
        IF f \in NumericFields THEN parseFloatOr0(editFormData, f) ELSE editFormData[f]]

\* debts.map(d => d.id === savedData.id ? savedData : d)
replaceById(collection, saved) ==
    [i \in 1..Len(collection) |->
        IF collection[i].id = saved.id THEN saved ELSE collection[i]]

\* handleSaveEditedItem()
handleSaveEditedItem ==
    IF editFormData.type = Null \/ editFormData.startDate = EmptyDate
    THEN UNCHANGED <<debts, bills, incomes, editingItemId, editFormData>>
    ELSE /\ CASE editFormData.type = "debt" ->
                   debts' = replaceById(debts, savedData) /\ UNCHANGED <<bills, incomes>>
              [] editFormData.type = "bill" ->
                   bills' = replaceById(bills, savedData) /\ UNCHANGED <<debts, incomes>>
              [] editFormData.type = "income" ->
                   incomes' = replaceById(incomes, savedData) /\ UNCHANGED <<debts, bills>>
         /\ handleCancelEdit

ItemTypes == {"debt", "bill", "income"}

\* const isEditing = editingItemId === item.id, and the row shows its form
isEditing(it) == editingItemId = <<it.id>> /\ editFormData.type # Null

\* the types whose list shows a row as an edit form
editRowTypes ==
    {type \in ItemTypes : \E i \in 1..Len(rowsOf(type)) : isEditing(rowsOf(type)[i])}

\* the add form covers the page while it is open
pageIsFree == newItem.type = Null

storedCount == Len(debts) + Len(bills) + Len(incomes)

\* useState([...]): what the user has left of the initial rows
FormDebts ==
    << [id |-> 1, name |-> "Car Loan", totalOwed |-> 15000000, paymentAmount |-> 350000,
        frequency |-> "monthly", startDate |-> Day(2025, 6, 15)] >>

FormBills == << >>

FormIncomes ==
    << [id |-> 1, name |-> "Paycheck", amount |-> 2000000, frequency |-> "bi-weekly",
        startDate |-> Day(2025, 6, 13)] >>

InitForms ==
    /\ env \in Zones
    /\ currentBalance = 5000000
    /\ debts = FormDebts
    /\ bills = FormBills
    /\ incomes = FormIncomes
    /\ editingItemId = <<>>
    /\ editFormData = noEditForm
    /\ newItem = closedForm
    /\ clock = 1000
    /\ NoResolve /\ NoPayments /\ NoDerived /\ NoLoop /\ NoShared

formFrame == UNCHANGED <<env, currentBalance, resolveVars, paymentVars, derivedVars,
                         loopVars, mockCurrentDate, pc>>

\* an Add button of the page
AddItem ==
    /\ pageIsFree
    /\ \E type \in ItemTypes : handleAddItem(type)
    /\ UNCHANGED <<debts, bills, incomes, editingItemId, editFormData, clock>>
    /\ formFrame

\* the user changes a field of the add form
ChangeNewItem ==
    /\ newItem.type # Null
    /\ \E field \in fieldsOf(newItem.type) :
         \E value \in TypedValues(field) : changeNewItem(field, value)
    /\ UNCHANGED <<debts, bills, incomes, editingItemId, editFormData, clock>>
    /\ formFrame

\* the Cancel button of the add form
CancelNewItem ==
    /\ newItem.type # Null
    /\ newItem' = closedForm
    /\ UNCHANGED <<debts, bills, incomes, editingItemId, editFormData, clock>>
    /\ formFrame

\* the Save button of the add form
SaveNewItem ==
    /\ newItem.type # Null
    /\ storedCount < MaxStored
    /\ \E now \in ClockValues : now >= clock /\ handleSaveNewItem(now)
    /\ UNCHANGED <<editingItemId, editFormData>>
    /\ formFrame

\* the delete button of a row that is not being edited
DeleteItem ==
    /\ pageIsFree
    /\ \E type \in ItemTypes :
         \E i \in 1..Len(rowsOf(type)) :
           /\ ~isEditing(rowsOf(type)[i])
           /\ \E confirmed \in BOOLEAN :
                askDeleteItem(type, rowsOf(type)[i].id, confirmed)
    /\ UNCHANGED <<newItem, editingItemId, editFormData, clock>>
    /\ formFrame

\* the edit button of a row that is not being edited
StartEdit ==
    /\ pageIsFree
    /\ \E type \in ItemTypes :
         \E i \in 1..Len(rowsOf(type)) :
           /\ ~isEditing(rowsOf(type)[i])
           /\ rowsOf(type)[i].startDate = EmptyDate
                \/ toISODate(rowsOf(type)[i].startDate, env) >= Day(2025, 6, 13) - MaxDrift
           /\ handleStartEdit(type, rowsOf(type)[i], env)
    /\ UNCHANGED <<debts, bills, incomes, newItem, clock>>
    /\ formFrame

\* the user changes a field of a row shown as an edit form
ChangeEditForm ==
    /\ pageIsFree
    /\ \E type \in editRowTypes :
         \E name \in fieldsOf(type) :
           \E value \in TypedValues(name) : handleChangeEditForm(name, value)
    /\ UNCHANGED <<debts, bills, incomes, newItem, editingItemId, clock>>
    /\ formFrame

\* the save button of a row shown as an edit form
SaveEditedItem ==
    /\ pageIsFree
    /\ editRowTypes # {}
    /\ handleSaveEditedItem
    /\ UNCHANGED <<newItem, clock>>
    /\ formFrame

\* the cancel button of a row shown as an edit form
CancelEdit ==
    /\ pageIsFree
    /\ editRowTypes # {}
    /\ handleCancelEdit
    /\ UNCHANGED <<debts, bills, incomes, newItem, clock>>
    /\ formFrame

NextForms ==
    \/ AddItem \/ ChangeNewItem \/ CancelNewItem \/ SaveNewItem
    \/ DeleteItem \/ StartEdit \/ ChangeEditForm \/ SaveEditedItem \/ CancelEdit

SpecForms == InitForms /\ [][NextForms]_vars

(***************************************************************************)
(* src/app.js: the add form of the older version.  It has no edit rows.    *)
(***************************************************************************)

appjs_defaultData(type) ==
    CASE type = "debt" ->
           [name |-> "", totalOwed |-> NotANumber, paymentAmount |-> NotANumber,
            frequency |-> "monthly", startDate |-> EmptyDate]
      [] type = "bill" ->
           [name |-> "", amount |-> NotANumber, frequency |-> "monthly",
            startDate |-> EmptyDate]
      [] type = "income" ->
           [name |-> "", amount |-> NotANumber, frequency |-> "bi-weekly",
            startDate |-> EmptyDate]

\* handleAddItem(type)
appjs_handleAddItem(type) == newItem' = [type |-> type, data |-> appjs_defaultData(type)]

\* handleSaveNewItem(), Date.now() reading now
appjs_handleSaveNewItem(now) ==
    /\ clock' = now
    /\ appendItem(newItem.type, itemWithId(newItem.data, now))
    /\ newItem' = closedForm

InitAppJsForms ==
    /\ env \in Zones
    /\ currentBalance = 5000000
    /\ debts = FormDebts
    /\ bills = FormBills
    /\ incomes = FormIncomes
    /\ editingItemId = <<>>
    /\ editFormData = noEditForm
    /\ newItem = closedForm
    /\ clock = 1000
    /\ NoResolve /\ NoPayments /\ NoDerived /\ NoLoop /\ NoShared

appjs_AddItem ==
    /\ pageIsFree
    /\ \E type \in ItemTypes : appjs_handleAddItem(type)
    /\ UNCHANGED <<debts, bills, incomes, editingItemId, editFormData, clock>>
    /\ formFrame

appjs_ChangeNewItem ==
    /\ newItem.type # Null
    /\ \E field \in fieldsOf(newItem.type) :
         \E value \in TypedValues(field) : changeNewItem(field, value)
    /\ UNCHANGED <<debts, bills, incomes, editingItemId, editFormData, clock>>
    /\ formFrame

appjs_CancelNewItem ==
    /\ newItem.type # Null
    /\ newItem' = closedForm
    /\ UNCHANGED <<debts, bills, incomes, editingItemId, editFormData, clock>>
    /\ formFrame

appjs_SaveNewItem ==
    /\ newItem.type # Null
    /\ storedCount < MaxStored
    /\ \E now \in ClockValues : now >= clock /\ appjs_handleSaveNewItem(now)
    /\ UNCHANGED <<editingItemId, editFormData>>
    /\ formFrame

appjs_DeleteRow ==
    /\ pageIsFree
    /\ \E type \in ItemTypes :
         \E id \in idsOf(rowsOf(type)) :
           \E confirmed \in BOOLEAN : askDeleteItem(type, id, confirmed)
    /\ UNCHANGED <<newItem, editingItemId, editFormData, clock>>
    /\ formFrame

NextAppJsForms ==
    \/ appjs_AddItem \/ appjs_ChangeNewItem \/ appjs_CancelNewItem
    \/ appjs_SaveNewItem \/ appjs_DeleteRow

SpecAppJsForms == InitAppJsForms /\ [][NextAppJsForms]_vars

(***************************************************************************)
(* Vocabulary of the properties.                                           *)
(***************************************************************************)

\* a date advanced by one period: 7 days, 14 days, one calendar month or one
\* calendar year, an overflowing day of month rolling into the next month
OnePeriodLater(t, f) ==
    CASE f = "weekly"    -> t + 7 * 24
      [] f = "bi-weekly" -> t + 14 * 24
      [] f = "monthly"   -> MakeDate(getFullYear(t), getMonth(t) + 1, getDate(t), t % 24)
      [] f = "annually"  -> MakeDate(getFullYear(t) + 1, getMonth(t), getDate(t), t % 24)

\* the first of the dates t, t + 1 period, t + 2 periods, ... that is >= ref
RECURSIVE EarliestFrom(_, _, _)
EarliestFrom(t, f, ref) ==
    IF t >= ref THEN t ELSE EarliestFrom(OnePeriodLater(t, f), f, ref)

\* the same, without walking the fixed-length periods one by one
EarliestOccurrence(start, f, ref) ==
    LET len == IF f = "weekly" THEN 7 * 24 ELSE 14 * 24
    IN  IF f \in {"weekly", "bi-weekly"}
        THEN IF start >= ref THEN start
             ELSE start + (((ref - start) + len - 1) \div len) * len
        ELSE EarliestFrom(start, f, ref)

\* local midnight of the reference day
ReferenceDate == setHours0(MOCK_CURRENT_DATE(env))

\* C1: for a recurring item, getNextPaymentDate returns the earliest of the
\* dates startDate, startDate + 1 period, startDate + 2 periods, ... that is
\* on or after the reference date
C1_NextIsEarliestOccurrence ==
    item.frequency \in Recurring =>
        /\ nextDate >= ReferenceDate
        /\ nextDate = EarliestOccurrence(ParseLocalDate(item.startDate),
                                         item.frequency, ReferenceDate)

\* C11: for a one-time item getNextPaymentDate returns startDate itself, the
\* same calendar day, whether it is before, on or after the reference date;
\* so does the getNextPaymentDate of src/app.js
C11_OneTimeReturnsStart ==
    item.frequency = "one-time" =>
        /\ nextDate = ParseLocalDate(item.startDate)
        /\ nextDate \div 24 = item.startDate
        /\ appjs_getNextPaymentDate(ParseLocalDate(item.startDate), item.frequency,
                                    MOCK_CURRENT_DATE(env))
              = ParseLocalDate(item.startDate)

\* a one-time item dated before the reference date, resolved to its own date
C11_Witness ==
    /\ item.frequency = "one-time"
    /\ ParseLocalDate(item.startDate) < ReferenceDate
    /\ nextDate \div 24 = item.startDate

\* C24: the getNextPaymentDate of src/unnamed/part_000 (jump, pull-back,
\* refinement) returns the date the getNextPaymentDate of src/app.js
\* (iteration period by period from startDate) returns
C24_JumpEqualsIteration ==
    nextDate = appjs_getNextPaymentDate(ParseLocalDate(item.startDate), item.frequency,
                                        MOCK_CURRENT_DATE(env))

(***************************************************************************)
(* Amortization properties (SpecPayments).                                 *)
(***************************************************************************)
NonNegativeDebt == debt.totalOwed >= 0 /\ debt.paymentAmount >= 0

\* the number of the dates t, t + 1 period, t + 2 periods, ... that are <= asOf
RECURSIVE ScheduleCount(_, _, _)
ScheduleCount(t, f, asOf) ==
    IF t <= asOf THEN 1 + ScheduleCount(OnePeriodLater(t, f), f, asOf) ELSE 0

\* C5: the payments made never exceed totalOwed; the replay counts no payment
\* after the one that meets or crosses totalOwed, and clips that one
C5_PaymentsCapped ==
    NonNegativeDebt =>
        /\ paymentsMade <= debt.totalOwed
        /\ LET n == Len(replayPayments(debt, upToDate).paid)
           IN  n > 1 => (n - 1) * debt.paymentAmount < debt.totalOwed

\* a replay whose last payment crossed totalOwed and was clipped
C5_Witness ==
    /\ Len(replayPayments(debt, upToDate).paid) * debt.paymentAmount > debt.totalOwed
    /\ debt.totalOwed > 0
    /\ paymentsMade = debt.totalOwed

C7_PaymentsAreScheduleCount ==
    (debt.frequency \in Recurring /\ NonNegativeDebt) =>
        LET start == ParseLocalDate(debt.startDate)
            asOf  == setHours0(upToDate)
            n     == ScheduleCount(start, debt.frequency, asOf)
        IN  /\ paymentsMade = Min(debt.totalOwed, debt.paymentAmount * n)
            /\ asOf < start => (paymentsMade = 0 /\ displayedOwed = debt.totalOwed)

\* several payments counted, the debt not yet paid off
C7_Witness ==
    /\ debt.frequency \in Recurring
    /\ paymentsMade >= 2 * debt.paymentAmount
    /\ debt.paymentAmount > 0
    /\ paymentsMade < debt.totalOwed

\* Scenario B: the car loan of the initial state, as of 2025-07-20
ScenarioB ==
    /\ debt.totalOwed = 15000000 /\ debt.paymentAmount = 350000
    /\ debt.frequency = "monthly" /\ debt.startDate = Day(2025, 6, 15)
    /\ upToDate \div 24 = Day(2025, 7, 20)

\* C10 as stated: in Scenario B exactly one payment, that of 2025-06-15, is
\* counted and 14650 remains
C10_ScenarioB_OnePayment ==
    ScenarioB =>
        /\ replayPayments(debt, upToDate).paid = <<ParseLocalDate(Day(2025, 6, 15))>>
        /\ paymentsMade = 350000
        /\ displayedOwed = 14650000

\* C10 as amended: in Scenario B the two payments of 2025-06-15 and
\* 2025-07-15 are counted and 14300 remains
C10_ScenarioB_TwoPayments ==
    ScenarioB =>
        /\ replayPayments(debt, upToDate).paid =
               <<ParseLocalDate(Day(2025, 6, 15)), ParseLocalDate(Day(2025, 7, 15))>>
        /\ paymentsMade = 700000
        /\ displayedOwed = 14300000

C10_Witness == ScenarioB /\ paymentsMade = 700000

\* C13: for a one-time debt the payments made are min(paymentAmount,
\* totalOwed) when startDate is on or before the as-of day, and 0 otherwise
C13_OneTimeDebtPaid ==
    debt.frequency = "one-time" =>
        paymentsMade = (IF debt.startDate <= upToDate \div 24
                        THEN Min(debt.paymentAmount, debt.totalOwed)
                        ELSE 0)

\* a one-time debt due on the as-of day, its payment clipped to totalOwed
C13_Witness ==
    /\ debt.frequency = "one-time"
    /\ debt.startDate = upToDate \div 24
    /\ debt.paymentAmount > debt.totalOwed
    /\ debt.totalOwed > 0
    /\ paymentsMade = debt.totalOwed

\* the expense entries the timeline computation emits for the debt
UpcomingOfDebt == generateEvents(<<debt>>, "expense", "paymentAmount", env)

\* C25: no payment date is counted twice: for a debt with money owed and a
\* payment above 0, a date counted as paid in the remaining balance displayed
\* as of the reference date is not also the date of an upcoming expense entry
\* of the debt
C25_NoPaymentCountedTwice ==
    (upToDate = MOCK_CURRENT_DATE(env) /\ debt.paymentAmount > 0 /\ debt.totalOwed > 0) =>
        LET paid     == replayPayments(debt, upToDate).paid
            upcoming == UpcomingOfDebt
        IN  \A k \in 1..Len(paid) :
                \A j \in 1..Len(upcoming) : upcoming[j].date # paid[k]

(***************************************************************************)
(* Timeline properties (SpecTimeline).                                     *)
(***************************************************************************)
AllItems == incomes \o bills \o debts

\* the last day of the forecast window: the reference day plus 90 days
HorizonDay == (MOCK_CURRENT_DATE(env) \div 24) + 90

\* the timeline entries of the item called name, and their dates
EntriesOf(name) == SelectSeq(timelineEvents, LAMBDA ev : ev.description = name)
DatesOf(name) == [k \in 1..Len(EntriesOf(name)) |-> EntriesOf(name)[k].date]

\* t, t + 1 period, t + 2 periods, ... as long as the day is within the horizon
RECURSIVE ExpectedDates(_, _, _)
ExpectedDates(t, f, horizonDay) ==
    IF t \div 24 <= horizonDay
    THEN <<t>> \o ExpectedDates(OnePeriodLater(t, f), f, horizonDay)
    ELSE <<>>

\* C2: the entries of a recurring item are exactly first, first + 1 period,
\* first + 2 periods, ... up to and including the horizon day, first being
\* getNextPaymentDate(startDate, frequency); none is before the reference date
C2_EntriesAreTheOccurrences ==
    \A i \in 1..Len(AllItems) :
        AllItems[i].frequency \in Recurring =>
            LET it    == AllItems[i]
                first == getNextPaymentDate(ParseLocalDate(it.startDate), it.frequency, env)
                ds    == DatesOf(it.name)
            IN  /\ ds = ExpectedDates(first, it.frequency, HorizonDay)
                /\ \A k \in 1..Len(ds) : ds[k] >= ReferenceDate

\* a recurring item with several entries, the last one on the horizon day
C2_Witness ==
    \E i \in 1..Len(AllItems) :
        /\ AllItems[i].frequency \in Recurring
        /\ Len(DatesOf(AllItems[i].name)) >= 3
        /\ DatesOf(AllItems[i].name)[Len(DatesOf(AllItems[i].name))] \div 24 = HorizonDay

\* the exact balance after each entry of the timeline
RECURSIVE ExactBalances(_, _)
ExactBalances(entries, balance) ==
    IF entries = <<>> THEN <<>>
    ELSE LET b == IF Head(entries).type = "income"
                  THEN balance + Head(entries).amount
                  ELSE balance - Head(entries).amount
         IN  <<b>> \o ExactBalances(Tail(entries), b)

\* C3 as stated: the runningBalance of every entry equals the starting
\* balance plus the incomes minus the expenses up to and including the entry
C3_RunningBalanceExact ==
    LET exact == ExactBalances(timelineEvents, currentBalance)
    IN  \A i \in 1..Len(timelineEvents) :
            10 * timelineEvents[i].runningBalance = exact[i]

\* C3 as amended: the runningBalance of every entry is that exact balance
\* rounded to whole cents, so the rounding of one entry never reaches the next
C3_RunningBalanceRounded ==
    LET exact == ExactBalances(timelineEvents, currentBalance)
    IN  \A i \in 1..Len(timelineEvents) :
            /\ 10 * timelineEvents[i].runningBalance - exact[i] <= 5
            /\ exact[i] - 10 * timelineEvents[i].runningBalance <= 5

\* incomes and expenses on the timeline, fractions of a cent having added up
\* to more than a cent
C3_Witness ==
    /\ \E i \in 1..Len(timelineEvents) : timelineEvents[i].type = "income"
    /\ \E i \in 1..Len(timelineEvents) : timelineEvents[i].type = "expense"
    /\ \E i \in 1..Len(timelineEvents) :
          /\ timelineEvents[i].amount % 10 # 0
          /\ \E j \in (i + 1)..Len(timelineEvents) :
                ExactBalances(timelineEvents, currentBalance)[j] % 1000 >= 20

\* the place of an entry's item in source order: incomes, bills, debts, each
\* in input order
SourceRank(ev) ==
    (CASE ev.description[1] = "income" -> 1
       [] ev.description[1] = "bill"   -> 2
       [] ev.description[1] = "debt"   -> 3) * (MaxItems + 1) + ev.description[2]

\* C4: the timeline is in ascending date order and entries of one date are in
\* source order
C4_SortedStable ==
    \A i \in 1..(Len(timelineEvents) - 1) :
        /\ timelineEvents[i].date <= timelineEvents[i + 1].date
        /\ timelineEvents[i].date = timelineEvents[i + 1].date
              => SourceRank(timelineEvents[i]) < SourceRank(timelineEvents[i + 1])

\* entries of one date from two collections, and from two items of one collection
C4_Witness ==
    /\ \E i, j \in 1..Len(timelineEvents) :
          /\ i < j /\ timelineEvents[i].date = timelineEvents[j].date
          /\ timelineEvents[i].description[1] # timelineEvents[j].description[1]
    /\ \E i, j \in 1..Len(timelineEvents) :
          /\ i < j /\ timelineEvents[i].date = timelineEvents[j].date
          /\ timelineEvents[i].description[1] = timelineEvents[j].description[1]

\* the payment dates the replay of a debt counts up to the horizon that lie in
\* the forecast window
ReplayedInWindow(d) ==
    SelectSeq(replayPayments(d, endDateOf(env)).paid,
              LAMBDA t : t >= ReferenceDate /\ t \div 24 <= HorizonDay)

\* C8: for every debt the payment dates replayed by calculatePaymentsMade
\* inside the forecast window are exactly the dates of the debt's entries
C8_ReplayMatchesTimeline ==
    \A i \in 1..Len(debts) : ReplayedInWindow(debts[i]) = DatesOf(debts[i].name)

\* the sum of the amounts of a sequence of entries
RECURSIVE SumAmounts(_)
SumAmounts(entries) ==
    IF entries = <<>> THEN 0 ELSE Head(entries).amount + SumAmounts(Tail(entries))

\* C9: for every debt, what is paid as of the reference date plus the debt's
\* entries of the timeline does not exceed totalOwed
C9_ForecastCapped ==
    \A i \in 1..Len(debts) :
        calculatePaymentsMade(debts[i], MOCK_CURRENT_DATE(env))
          + SumAmounts(EntriesOf(debts[i].name)) <= debts[i].totalOwed

\* C12: a one-time item has at most one entry, dated startDate, and it has
\* that entry exactly when startDate is on or before the horizon day, also
\* when startDate is before the reference date
C12_OneTimeAtMostOnce ==
    \A i \in 1..Len(AllItems) :
        AllItems[i].frequency = "one-time" =>
            /\ Len(EntriesOf(AllItems[i].name)) <= 1
            /\ Len(EntriesOf(AllItems[i].name)) = 1 <=> AllItems[i].startDate <= HorizonDay
            /\ \A k \in 1..Len(DatesOf(AllItems[i].name)) :
                  DatesOf(AllItems[i].name)[k] = ParseLocalDate(AllItems[i].startDate)

\* a one-time item dated before the reference date whose entry moves the
\* running balance, next to a one-time item dated after the horizon
C12_Witness ==
    /\ \E i \in 1..Len(AllItems) :
          /\ AllItems[i].frequency = "one-time"
          /\ ParseLocalDate(AllItems[i].startDate) < ReferenceDate
          /\ Len(EntriesOf(AllItems[i].name)) = 1
          /\ timelineEvents[1].description = AllItems[i].name
          /\ 10 * timelineEvents[1].runningBalance # currentBalance
    /\ \E i \in 1..Len(AllItems) :
          /\ AllItems[i].frequency = "one-time"
          /\ AllItems[i].startDate > HorizonDay
          /\ EntriesOf(AllItems[i].name) = <<>>

\* the six dates of Scenario C
ScenarioCDates ==
    << ParseLocalDate(Day(2025, 6, 13)), ParseLocalDate(Day(2025, 6, 27)),
       ParseLocalDate(Day(2025, 7, 11)), ParseLocalDate(Day(2025, 7, 25)),
       ParseLocalDate(Day(2025, 8, 8)),  ParseLocalDate(Day(2025, 8, 22)) >>

\* the income of Scenario C
IsScenarioCIncome(it) ==
    it.amount = 2000000 /\ it.frequency = "bi-weekly" /\ it.startDate = Day(2025, 6, 13)

\* the reference day is 2025-06-06 and the horizon day 2025-09-04
ScenarioDays ==
    ReferenceDate \div 24 = Day(2025, 6, 6) /\ HorizonDay = Day(2025, 9, 4)

\* C22: Scenario C.  With the reference day 2025-06-06 and the horizon day
\* 2025-09-04, the income {2000, bi-weekly, 2025-06-13} has exactly six
\* entries, on 2025-06-13, 06-27, 07-11, 07-25, 08-08 and 08-22, each an
\* income of 2000
C22_ScenarioC ==
    ScenarioDays =>
        \A i \in 1..Len(incomes) :
            IsScenarioCIncome(incomes[i]) =>
                /\ DatesOf(incomes[i].name) = ScenarioCDates
                /\ \A k \in 1..Len(EntriesOf(incomes[i].name)) :
                      /\ EntriesOf(incomes[i].name)[k].amount = 2000000
                      /\ EntriesOf(incomes[i].name)[k].type = "income"

\* the income of Scenario C among other items, its six entries on the
\* timeline
C22_Witness ==
    /\ ScenarioDays
    /\ Len(bills) + Len(debts) >= 1
    /\ \E i \in 1..Len(incomes) :
          IsScenarioCIncome(incomes[i]) /\ Len(EntriesOf(incomes[i].name)) = 6

\* Scenario D: the starting balance 5000 and nothing but the rent of the
\* initial state
ScenarioD ==
    /\ currentBalance = 5000000
    /\ incomes = <<>> /\ debts = <<>> /\ Len(bills) = 1
    /\ bills[1].amount = 1200000 /\ bills[1].frequency = "monthly"
    /\ bills[1].startDate = Day(2025, 6, 1)

\* C23: in Scenario D the first entry of the timeline is the bill on
\* 2025-07-01, an expense of 1200, with the running balance 3800
C23_ScenarioD ==
    ScenarioD =>
        /\ timelineEvents # <<>>
        /\ timelineEvents[1].date = ParseLocalDate(Day(2025, 7, 1))
        /\ timelineEvents[1].description = bills[1].name
        /\ timelineEvents[1].type = "expense"
        /\ timelineEvents[1].amount = 1200000
        /\ timelineEvents[1].runningBalance = 380000

\* Scenario D, the bill resolved past its start date to the three months of
\* the window
C23_Witness ==
    /\ ScenarioD
    /\ Len(timelineEvents) = 3
    /\ timelineEvents[1].date > ParseLocalDate(bills[1].startDate)
    /\ timelineEvents[1].runningBalance = 380000

(***************************************************************************)
(* Weekly summary properties (SpecChart).                                  *)
(***************************************************************************)

\* the day number of the Sunday on or before a day (day 0 is a Thursday)
SundayOnOrBefore(day) == day - ((day + 4) % 7)

\* the label that names the week of a Sunday
LabelOfSunday(day) == <<"Week of", CivilFromDays(day)>>

\* the Sunday a bucket's label names
SundayOfBucket(b) == DaysFromCivil(b.name[2].year, b.name[2].month, b.name[2].day)

\* the entries of one kind dated in the week that starts on a Sunday
EntriesOfWeek(sunday, kind) ==
    SelectSeq(timelineEvents,
              LAMBDA ev : SundayOnOrBefore(ev.date \div 24) = sunday /\ ev.type = kind)

\* the Sunday on or before the date of each entry of the timeline
WeeksOfEntries ==
    [i \in 1..Len(timelineEvents) |-> SundayOnOrBefore(timelineEvents[i].date \div 24)]

\* the position of the first of the entries wk whose week is w
FirstAppearance(wk, w) ==
    CHOOSE i \in {k \in DOMAIN wk : wk[k] = w} :
        \A j \in {k \in DOMAIN wk : wk[k] = w} : i <= j

\* C14: every entry is in the bucket labelled with the Sunday on or before
\* its date, every bucket holds an entry and names a Sunday, no two buckets
\* name the same Sunday (so entries share a bucket exactly when that Sunday
\* is the same); the buckets are in the order of the first appearance of
\* their weeks in the timeline, which is ascending
C14_BucketsByWeek ==
    LET wk == WeeksOfEntries
        su == [b \in 1..Len(chartData) |-> SundayOfBucket(chartData[b])]
    IN  /\ {wk[i] : i \in DOMAIN wk} = {su[b] : b \in DOMAIN su}
        /\ \A b \in DOMAIN su :
              /\ (su[b] + 4) % 7 = 0
              /\ chartData[b].name = LabelOfSunday(su[b])
        /\ \A b \in 1..(Len(chartData) - 1) :
              /\ su[b] < su[b + 1]
              /\ FirstAppearance(wk, su[b]) < FirstAppearance(wk, su[b + 1])

\* several buckets; one holds entries of two different days, one an entry
\* dated on the Sunday itself, one an entry dated on a Saturday
C14_Witness ==
    /\ Len(chartData) >= 3
    /\ \E i, j \in 1..Len(timelineEvents) :
          /\ timelineEvents[i].date < timelineEvents[j].date
          /\ weekName(timelineEvents[i]) = weekName(timelineEvents[j])
    /\ \E i \in 1..Len(timelineEvents) : getDay(timelineEvents[i].date) = 0
    /\ \E i \in 1..Len(timelineEvents) : getDay(timelineEvents[i].date) = 6

\* C15: in every bucket income is the sum of the amounts of the income
\* entries of its week and expenses the sum of those of its expense entries,
\* 0 when the week has none of the kind
C15_BucketSums ==
    \A b \in 1..Len(chartData) :
        LET inc == EntriesOfWeek(SundayOfBucket(chartData[b]), "income")
            exp == EntriesOfWeek(SundayOfBucket(chartData[b]), "expense")
        IN  /\ chartData[b].income = SumAmounts(inc)
            /\ chartData[b].expenses = SumAmounts(exp)
            /\ inc = <<>> => chartData[b].income = 0
            /\ exp = <<>> => chartData[b].expenses = 0

\* a week with income only, a week with expenses only and a week with an
\* income entry and several expense entries
C15_Witness ==
    /\ \E b \in 1..Len(chartData) :
          chartData[b].income > 0 /\ chartData[b].expenses = 0
    /\ \E b \in 1..Len(chartData) :
          chartData[b].income = 0 /\ chartData[b].expenses > 0
    /\ \E b \in 1..Len(chartData) :
          /\ chartData[b].income > 0
          /\ Len(EntriesOfWeek(SundayOfBucket(chartData[b]), "expense")) >= 2

(***************************************************************************)
(* The chart against the timeline (SpecChart).                             *)
(***************************************************************************)

\* the sum of one field over the buckets
RECURSIVE SumField(_, _)
SumField(buckets, f) ==
    IF buckets = <<>> THEN 0 ELSE Head(buckets)[f] + SumField(Tail(buckets), f)

\* the sum of the amounts of the entries of one kind on the timeline
KindTotal(kind) == SumAmounts(SelectSeq(timelineEvents, LAMBDA ev : ev.type = kind))

\* the buckets of the week an entry is dated in
BucketsOf(entry) ==
    {b \in 1..Len(chartData) :
        SundayOfBucket(chartData[b]) = SundayOnOrBefore(entry.date \div 24)}

\* every entry has exactly one bucket and its amount is in the sum of its
\* kind once; no entries, no buckets
CountedOnce ==
    /\ (timelineEvents = <<>>) <=> (chartData = <<>>)
    /\ \A i \in 1..Len(timelineEvents) : Cardinality(BucketsOf(timelineEvents[i])) = 1
    /\ SumField(chartData, "income") = KindTotal("income")
    /\ SumField(chartData, "expenses") = KindTotal("expense")

\* what the buckets add up to, and what the last entry shows the balance to
\* have moved by (thousandths of a dollar)
BucketsNet == SumField(chartData, "income") - SumField(chartData, "expenses")
ShownChange == 10 * timelineEvents[Len(timelineEvents)].runningBalance - currentBalance

FreshTimeline ==
    appjs_computeTimeline(currentBalance, debts, bills, incomes, MOCK_CURRENT_DATE(env))

\* however many computations went before, the timeline is the one a first
\* computation gives for the same balance and collections
TimelineIsFresh == pc = "mounted" => timelineEvents = FreshTimeline

\* C16: however many computations went before, the timeline is the one a
\* first computation gives for the same balance and collections, and the
\* reference date later calls see is the one the module defines
C16_EngineIsPure ==
    /\ TimelineIsFresh
    /\ mockCurrentDate = MOCK_CURRENT_DATE(env)

(***************************************************************************)
(* Unknown frequencies (SpecEnumerate).                                    *)
(***************************************************************************)

\* C17: an item whose frequency is missing or unknown never reaches the
\* enumeration (nothing is emitted for it), and the loop never emits a date
\* it has emitted before
C17_UnknownFrequencyRejected ==
    /\ item.frequency \notin Frequencies => pushed = <<>>
    /\ \A i, j \in 1..Len(pushed) : i < j => pushed[i] < pushed[j]

(***************************************************************************)
(* Termination of the three loops (FairLoops).                             *)
(***************************************************************************)

\* C29: for an item of any of the five frequencies, with any startDate and
\* any amounts >= 0, the refinement loop, the enumeration loop and the replay
\* loop all come to their end, and the enumeration has emitted no more
\* entries than weeks begin in the horizon of 90 days
C29_LoopsTerminate == <>(pc = "rendered" /\ Len(pushed) <= 90 \div 7 + 1)

\* a weekly debt that pays nothing, started long ago: thirteen entries
\* emitted and the replay gone through all its past dates
C29_Witness ==
    /\ pc = "rendered"
    /\ item.frequency = "weekly" /\ item.startDate = Day(2025, 1, 31)
    /\ item.paymentAmount = 0 /\ item.totalOwed > 0
    /\ Len(pushed) = 13
    /\ Len(replay.paid) = 19
    /\ replay.totalPayments = 0

(***************************************************************************)
(* The boundary: what the save handlers let into the collections           *)
(* (SpecAppJsForms for C18, SpecForms for C19 and C20).                    *)
(***************************************************************************)

\* C18: a save with an empty startDate is rejected, so every stored item has
\* a startDate that is not empty
C18_StartDateRequired ==
    \A type \in ItemTypes :
      \A i \in 1..Len(rowsOf(type)) : rowsOf(type)[i].startDate # EmptyDate

\* C19: negative and non-numeric amounts are coerced to zero by the saves,
\* so every stored amount, totalOwed and paymentAmount is >= 0
C19_AmountsNonNegative ==
    \A type \in ItemTypes :
      \A i \in 1..Len(rowsOf(type)) :
        \A f \in NumericFields \cap DOMAIN rowsOf(type)[i] : rowsOf(type)[i][f] >= 0

\* C20: no two items of one collection have the same id, whatever Date.now()
\* reads at the saves
C20_IdsUnique ==
    \A type \in ItemTypes :
      \A i, j \in 1..Len(rowsOf(type)) :
        i < j => rowsOf(type)[i].id # rowsOf(type)[j].id

(***************************************************************************)
(* Deleting (SpecChart).                                                   *)
(***************************************************************************)

\* the rows without those of an id, in their order
RECURSIVE RowsWithout(_, _)
RowsWithout(rows, id) ==
    IF rows = <<>> THEN <<>>
    ELSE (IF Head(rows).id = id THEN <<>> ELSE <<Head(rows)>>)
         \o RowsWithout(Tail(rows), id)

\* C21: a declined delete changes nothing; a confirmed one takes exactly the
\* rows of the given id out of the collection of the given type, keeps the
\* order of the others, and leaves the other two collections and the
\* starting balance as they are
C21_DeleteRemovesOnlyTheItem ==
    [][\E type \in {"debt", "bill", "income"} :
         \E id \in idsOf(rowsOf(type)) :
           /\ type = "debt" =>
                 debts' = RowsWithout(debts, id) /\ bills' = bills /\ incomes' = incomes
           /\ type = "bill" =>
                 bills' = RowsWithout(bills, id) /\ debts' = debts /\ incomes' = incomes
           /\ type = "income" =>
                 incomes' = RowsWithout(incomes, id) /\ debts' = debts /\ bills' = bills
           /\ currentBalance' = currentBalance]_vars

\* the first bill has been deleted, the second is still there, and so is an
\* item of another collection that has the id of the deleted bill
C21_Witness ==
    /\ Len(bills) = 1 /\ bills[1].id = 2
    /\ \E i \in 1..Len(incomes \o debts) : (incomes \o debts)[i].id = 1

(***************************************************************************)
(* Editing (SpecForms).                                                    *)
(***************************************************************************)

\* the rows shown as edit forms, each as the type of its list and its place
EditRows ==
    {r \in ItemTypes \X (1..storedCount) :
        r[2] <= Len(rowsOf(r[1])) /\ isEditing(rowsOf(r[1])[r[2]])}

\* C26: at most one row of the three lists is in edit mode, the row of the
\* item whose edit was started, in the list of its type
C26_OneRowInEditMode ==
    /\ Cardinality(EditRows) <= 1
    /\ \A r \in EditRows : r[1] = editFormData.type

\* the rows of a list after the step
rowsAfter(type) ==
    CASE type = "debt" -> debts' [] type = "bill" -> bills' [] type = "income" -> incomes'

\* the open edit form is closed by the step (by a save or by a cancel)
EditFormCloses == editFormData.type # Null /\ editFormData'.type = Null

\* the fields a row of a type shows are the same in two items
SameShownFields(type, a, b) ==
    /\ a.name = b.name /\ a.frequency = b.frequency /\ a.startDate = b.startDate
    /\ \A f \in fieldsOf(type) \cap NumericFields : a[f] = b[f]

\* C27: when the edit of an item is started and the form is saved with no
\* field changed, the item keeps its name, frequency, startDate and amounts,
\* in every time zone
C27_EditRoundTrip ==
    [][EditFormCloses =>
         \A type \in ItemTypes :
           \A i \in 1..Len(rowsOf(type)) :
             (editFormData.type = type
                /\ editFormData = editFormOf(type, rowsOf(type)[i], env))
             => /\ Len(rowsAfter(type)) = Len(rowsOf(type))
                /\ SameShownFields(type, rowsOf(type)[i], rowsAfter(type)[i])]_vars

\* the places of the rows the step changes
ChangedRows ==
    {r \in ItemTypes \X (1..storedCount) :
        /\ r[2] <= Len(rowsOf(r[1]))
        /\ rowsAfter(r[1])[r[2]] # rowsOf(r[1])[r[2]]}

\* C28: a save of the edit form changes at most one row, the row of the
\* edited id in the list of the edited type, which becomes the saved data
\* and keeps its id and place; no list changes its length, and
\* editingItemId and editFormData are cleared
C28_EditInPlace ==
    [][EditFormCloses =>
         /\ \A type \in ItemTypes : Len(rowsAfter(type)) = Len(rowsOf(type))
         /\ Cardinality(ChangedRows) <= 1
         /\ \A r \in ChangedRows :
               /\ r[1] = editFormData.type
               /\ rowsOf(r[1])[r[2]].id = editFormData.id
               /\ rowsAfter(r[1])[r[2]] = savedData
               /\ rowsAfter(r[1])[r[2]].id = rowsOf(r[1])[r[2]].id
         /\ editingItemId' = <<>>]_vars

====
